---- MODULE Spec2Model ----
(***************************************************************************)
(* Model of the D.R.O.S.S chat server: the sqlite store of sessions and    *)
(* conversation turns (server/database.ts), the generation adapter with    *)
(* its retry logic and the /api/chat, /api/sessions and /api/history       *)
(* handlers (the session-aware server).                                    *)
(*                                                                         *)
(* Text is a sequence of strings.  Text typed by a user is a sequence of   *)
(* one-character strings, so that trim, substring and keyword search work  *)
(* on characters; a fixed literal of the program (a canned reply) is a     *)
(* sequence holding that literal as one element.                           *)
(***************************************************************************)
EXTENDS Integers, Sequences, FiniteSets, TLC

(***************************************************************************)
(* Bounds of the model.                                                    *)
(***************************************************************************)
\* the clock (CURRENT_TIMESTAMP and Date.now()) takes the values 0..MaxClock
MaxClock == 1
\* largest limit passed to a direct call of getConversationHistory
MaxLimit == 2
\* number of session-management requests (create, rename, delete) served
MaxSessionOps == 1

\* the handler slots of POST /api/chat: requests that may be in flight at once
Requests == {"r1", "r2"}

\* the slot used when the client sends one chat request at a time
Serial == {"r1"}

\* a request field that is absent from the JSON body (undefined)
Absent == "<absent>"

(***************************************************************************)
(* Text helpers.                                                           *)
(***************************************************************************)
Whitespace == {" ", "\t", "\n"}

Min(a, b) == IF a < b THEN a ELSE b

\* String.prototype.substring(from, to) with 0-based, end-exclusive indices
Substring(t, from, to) == SubSeq(t, from + 1, Min(to, Len(t)))

\* index of the first non-whitespace character, Len(t)+1 when there is none
FirstInk(t) ==
  IF \E i \in 1..Len(t) : t[i] \notin Whitespace
    THEN CHOOSE i \in 1..Len(t) :
           /\ t[i] \notin Whitespace
           /\ \A j \in 1..(i - 1) : t[j] \in Whitespace
    ELSE Len(t) + 1

\* index of the last non-whitespace character, 0 when there is none
LastInk(t) ==
  IF \E i \in 1..Len(t) : t[i] \notin Whitespace
    THEN CHOOSE i \in 1..Len(t) :
           /\ t[i] \notin Whitespace
           /\ \A j \in (i + 1)..Len(t) : t[j] \in Whitespace
    ELSE 0

\* String.prototype.trim
Trim(t) == SubSeq(t, FirstInk(t), LastInk(t))

Reverse(s) == [i \in 1..Len(s) |-> s[Len(s) + 1 - i]]

\* the first n elements of s (LIMIT n)
Take(s, n) == SubSeq(s, 1, Min(n, Len(s)))

(***************************************************************************)
(* Classifier: detectMood and detectMode of the server.                    *)
(***************************************************************************)
\* /(happy|great|awesome|excited|amazing|wonderful)/i
HappyWords ==
  {<<"h", "a", "p", "p", "y">>,
   <<"g", "r", "e", "a", "t">>,
   <<"a", "w", "e", "s", "o", "m", "e">>,
   <<"e", "x", "c", "i", "t", "e", "d">>,
   <<"a", "m", "a", "z", "i", "n", "g">>,
   <<"w", "o", "n", "d", "e", "r", "f", "u", "l">>}

\* /(sad|depressed|down|lonely|upset)/i
SadWords ==
  {<<"s", "a", "d">>,
   <<"d", "e", "p", "r", "e", "s", "s", "e", "d">>,
   <<"d", "o", "w", "n">>,
   <<"l", "o", "n", "e", "l", "y">>,
   <<"u", "p", "s", "e", "t">>}

\* /(stress|anxious|worried|overwhelmed|tired|drained)/i
StressedWords ==
  {<<"s", "t", "r", "e", "s", "s">>,
   <<"a", "n", "x", "i", "o", "u", "s">>,
   <<"w", "o", "r", "r", "i", "e", "d">>,
   <<"o", "v", "e", "r", "w", "h", "e", "l", "m", "e", "d">>,
   <<"t", "i", "r", "e", "d">>,
   <<"d", "r", "a", "i", "n", "e", "d">>}

\* /(excited|can't wait|looking forward|pumped)/i
ExcitedWords ==
  {<<"e", "x", "c", "i", "t", "e", "d">>,
   <<"c", "a", "n", "'", "t", " ", "w", "a", "i", "t">>,
   <<"l", "o", "o", "k", "i", "n", "g", " ", "f", "o", "r", "w", "a", "r", "d">>,
   <<"p", "u", "m", "p", "e", "d">>}

\* /(code|debug|error|function|component|api|bug|programming|react|angular|typescript)/i
CodeWords ==
  {<<"c", "o", "d", "e">>,
   <<"d", "e", "b", "u", "g">>,
   <<"e", "r", "r", "o", "r">>,
   <<"f", "u", "n", "c", "t", "i", "o", "n">>,
   <<"c", "o", "m", "p", "o", "n", "e", "n", "t">>,
   <<"a", "p", "i">>,
   <<"b", "u", "g">>,
   <<"p", "r", "o", "g", "r", "a", "m", "m", "i", "n", "g">>,
   <<"r", "e", "a", "c", "t">>,
   <<"a", "n", "g", "u", "l", "a", "r">>,
   <<"t", "y", "p", "e", "s", "c", "r", "i", "p", "t">>}

\* /(research|learn|explain|how does|what is|tell me about|study|researching)/i
ResearchWords ==
  {<<"r", "e", "s", "e", "a", "r", "c", "h">>,
   <<"l", "e", "a", "r", "n">>,
   <<"e", "x", "p", "l", "a", "i", "n">>,
   <<"h", "o", "w", " ", "d", "o", "e", "s">>,
   <<"w", "h", "a", "t", " ", "i", "s">>,
   <<"t", "e", "l", "l", " ", "m", "e", " ", "a", "b", "o", "u", "t">>,
   <<"s", "t", "u", "d", "y">>,
   <<"r", "e", "s", "e", "a", "r", "c", "h", "i", "n", "g">>}

UpperCase ==
  <<"A", "B", "C", "D", "E", "F", "G", "H", "I", "J", "K", "L", "M", "N", "O", "P", "Q", "R", "S", "T", "U", "V", "W", "X", "Y", "Z">>

LowerCase ==
  <<"a", "b", "c", "d", "e", "f", "g", "h", "i", "j", "k", "l", "m", "n", "o", "p", "q", "r", "s", "t", "u", "v", "w", "x", "y", "z">>

\* the lower-case letter of each upper-case letter
Lowered ==
  [c \in {UpperCase[i] : i \in 1..Len(UpperCase)} |->
    LowerCase[CHOOSE i \in 1..Len(UpperCase) : UpperCase[i] = c]]

\* String.prototype.toLowerCase, one character
LowerChar(c) == IF c \in DOMAIN Lowered THEN Lowered[c] ELSE c

toLowerCase(t) == [i \in 1..Len(t) |-> LowerChar(t[i])]

\* word occurs in t as a substring
Contains(t, word) ==
  \E i \in 0..(Len(t) - Len(word)) :
    \A j \in 1..Len(word) : t[i + j] = word[j]

\* RegExp.prototype.test of an alternation of literals with flag i
Test(words, t) ==
  \E word \in words : Contains(toLowerCase(t), toLowerCase(word))

\* the keyword tests without flag i and without toLowerCase
detectMoodExact(text) ==
  IF \E word \in HappyWords : Contains(text, word) THEN "happy"
  ELSE IF \E word \in SadWords : Contains(text, word) THEN "sad"
  ELSE IF \E word \in StressedWords : Contains(text, word) THEN "stressed"
  ELSE IF \E word \in ExcitedWords : Contains(text, word) THEN "excited"
  ELSE "neutral"

detectMood(text) ==
  LET lower == toLowerCase(text)
  IN  IF Test(HappyWords, lower) THEN "happy"
      ELSE IF Test(SadWords, lower) THEN "sad"
      ELSE IF Test(StressedWords, lower) THEN "stressed"
      ELSE IF Test(ExcitedWords, lower) THEN "excited"
      ELSE "neutral"

\* 'friend' whatever the current mode
AlwaysFriend(mode) == "friend"

\* currentMode || 'friend'
OrFriend(mode) == IF mode = Absent \/ mode = "" THEN "friend" ELSE mode

\* the research keywords tested before the code keywords
detectModeResearchFirst(text, currentMode) ==
  LET lower == toLowerCase(text)
  IN  IF Test(ResearchWords, lower) THEN "research"
      ELSE IF Test(CodeWords, lower) THEN "code"
      ELSE OrFriend(currentMode)

detectMode(text, currentMode) ==
  LET lower == toLowerCase(text)
  IN  IF Test(CodeWords, lower) THEN "code"
      ELSE IF Test(ResearchWords, lower) THEN "research"
      ELSE OrFriend(currentMode)

(***************************************************************************)
(* Identifiers and literals.                                               *)
(***************************************************************************)
\* sessionId = 'default' when the body carries none
DefaultSession == <<"default", 0>>

\* 'session-' + Date.now()
GeneratedSession(t) == <<"session-", t>>

NoSessionId == <<Absent, 0>>

SessionIds == {DefaultSession} \cup {GeneratedSession(t) : t \in 0..MaxClock}

NewChatTitle == <<"New Chat">>

Ellipsis == <<".", ".", ".">>

TitleLen == 50

(***************************************************************************)
(* The store: tables sessions and conversations of database.ts.            *)
(***************************************************************************)
VARIABLES
  sessions,        \* table sessions: id |-> [title, created_at, updated_at]
  conversations,   \* table conversations, in rowid order
  lastID,          \* sqlite_sequence of conversations (AUTOINCREMENT)
  now,             \* the clock
  pendingTouch     \* touchSession statements issued and not yet executed

\* a row of table conversations
Turn(id, sid, role, content, mood, mode, ts) ==
  [id |-> id, session_id |-> sid, role |-> role, content |-> content,
   mood |-> mood, mode |-> mode, timestamp |-> ts]

Rows == {conversations[i] : i \in 1..Len(conversations)}

TurnsOf(sid) == {row \in Rows : row.session_id = sid}

\* INSERT OR REPLACE in place of INSERT OR IGNORE: an existing row is replaced
createSessionReplace(sess, sid, title, t) ==
  [x \in (DOMAIN sess) \cup {sid} |->
     IF x = sid THEN [title |-> title, created_at |-> t, updated_at |-> t]
                ELSE sess[x]]

\* INSERT OR IGNORE INTO sessions (id, title): an existing id is left alone
createSession(sess, sid, title, t) ==
  IF sid \in DOMAIN sess
    THEN sess
    ELSE [x \in (DOMAIN sess) \cup {sid} |->
            IF x = sid
              THEN [title |-> title, created_at |-> t, updated_at |-> t]
              ELSE sess[x]]

\* an upsert: a rename of an id without a row inserts the row
updateSessionTitleUpsert(sess, sid, title, t) ==
  [x \in (DOMAIN sess) \cup {sid} |->
     IF x # sid THEN sess[x]
     ELSE IF sid \in DOMAIN sess
       THEN [sess[x] EXCEPT !.title = title, !.updated_at = t]
       ELSE [title |-> title, created_at |-> t, updated_at |-> t]]

\* UPDATE sessions SET title = ?, updated_at = CURRENT_TIMESTAMP WHERE id = ?
updateSessionTitle(sess, sid, title, t) ==
  [x \in DOMAIN sess |->
     IF x = sid THEN [sess[x] EXCEPT !.title = title, !.updated_at = t]
                ELSE sess[x]]

\* DELETE FROM sessions WHERE id = ?
deleteSession(sess, sid) == [x \in (DOMAIN sess) \ {sid} |-> sess[x]]

\* an UPDATE that writes created_at back into updated_at
touchSessionStale(sess, sid, t) ==
  [x \in DOMAIN sess |->
     IF x = sid THEN [sess[x] EXCEPT !.updated_at = sess[x].created_at]
                ELSE sess[x]]

\* UPDATE sessions SET updated_at = CURRENT_TIMESTAMP WHERE id = ?
touchSession(sess, sid, t) ==
  [x \in DOMAIN sess |->
     IF x = sid THEN [sess[x] EXCEPT !.updated_at = t] ELSE sess[x]]

\* a connection that enforces foreign keys
foreign_keys_on == TRUE

\* The connection is opened without PRAGMA foreign_keys = ON, and sqlite
\* leaves foreign keys unenforced by default: the FOREIGN KEY ... ON DELETE
\* CASCADE clause of table conversations is parsed and never acted upon.
foreign_keys == FALSE

\* the rows of conversations left after DELETE FROM sessions WHERE id = sid
CascadeDelete(conv, sid) ==
  IF foreign_keys
    THEN SelectSeq(conv, LAMBDA row : row.session_id # sid)
    ELSE conv

\* an INSERT that binds the role column to 'user' whatever the caller passes
saveMessageAsUser(conv, id, sid, role, content, mood, mode, t) ==
  Append(conv, Turn(id, sid, "user", content, mood, mode, t))

\* INSERT OR REPLACE keyed on the session: the session's latest turn is
\* overwritten instead of a row being added
saveMessageOverwrite(conv, id, sid, role, content, mood, mode, t) ==
  IF \E i \in 1..Len(conv) : conv[i].session_id = sid
    THEN [conv EXCEPT ![CHOOSE i \in 1..Len(conv) :
                          /\ conv[i].session_id = sid
                          /\ \A j \in (i + 1)..Len(conv) :
                               conv[j].session_id # sid] =
                        Turn(id, sid, role, content, mood, mode, t)]
    ELSE Append(conv, Turn(id, sid, role, content, mood, mode, t))

\* INSERT INTO conversations (...): the row gets the next AUTOINCREMENT id
\* and timestamp CURRENT_TIMESTAMP
\* the assistant turn saved with the defaults of mood and mode, null
saveMessageDefaults(conv, id, sid, role, content, mood, mode, t) ==
  Append(conv, Turn(id, sid, role, content,
                    IF role = "assistant" THEN Absent ELSE mood,
                    IF role = "assistant" THEN Absent ELSE mode, t))

saveMessage(conv, id, sid, role, content, mood, mode, t) ==
  Append(conv, Turn(id, sid, role, content, mood, mode, t))

\* the INSERT is refused when foreign keys are enforced and the session row
\* is missing
InsertAllowed(sess, sid) == (~foreign_keys) \/ sid \in DOMAIN sess

MaxTimestamp(S) == CHOOSE m \in {row.timestamp : row \in S} :
                     \A row \in S : row.timestamp <= m

\* ORDER BY timestamp DESC: every order of the rows of S with non-increasing
\* timestamps; SQL leaves the order of rows with equal keys to the query plan
RECURSIVE OrderByTimestampDesc(_)
OrderByTimestampDesc(S) ==
  IF S = {}
    THEN {<<>>}
    ELSE LET top == {row \in S : row.timestamp = MaxTimestamp(S)}
         IN  UNION {{<<row>> \o rest : rest \in OrderByTimestampDesc(S \ {row})}
                      : row \in top}

\* SELECT * FROM conversations WHERE session_id = ? ORDER BY timestamp DESC
\* LIMIT ?, then rows.reverse(): the set of results the query may give
getConversationHistory(sid, limit) ==
  {Reverse(Take(scan, limit)) : scan \in OrderByTimestampDesc(TurnsOf(sid))}

\* the key of ORDER BY s.updated_at ASC
MinUpdated(sess, S) == CHOOSE m \in {sess[x].updated_at : x \in S} :
                         \A x \in S : sess[x].updated_at >= m

MaxUpdated(sess, S) == CHOOSE m \in {sess[x].updated_at : x \in S} :
                         \A x \in S : sess[x].updated_at <= m

\* FROM sessions s LEFT JOIN conversations c ON s.id = c.session_id: a joined
\* row pairs a session id with {the matching turn}, or with {} (all-NULL c)
\* when the session matches no turn
LeftJoin(sess) ==
  {[s |-> p[1], c |-> {p[2]}] :
      p \in {q \in (DOMAIN sess) \X Rows : q[2].session_id = q[1]}}
  \cup {[s |-> sid, c |-> {}] :
      sid \in {x \in DOMAIN sess : \A row \in Rows : row.session_id # x}}

\* COUNT(*) in place of COUNT(c.id)
CountStar(sess, sid) == Cardinality({j \in LeftJoin(sess) : j.s = sid})

\* COUNT(c.id) over the group of s.id = sid: the joined rows whose c.id is
\* not NULL
CountTurns(sess, sid) ==
  Cardinality({j \in LeftJoin(sess) : j.s = sid /\ j.c # {}})

\* one row of getAllSessions
SessionRow(sess, sid) ==
  [id |-> sid, title |-> sess[sid].title, created_at |-> sess[sid].created_at,
   updated_at |-> sess[sid].updated_at,
   message_count |-> CountTurns(sess, sid)]

RECURSIVE OrderByUpdatedDesc(_, _)
OrderByUpdatedDesc(sess, S) ==
  IF S = {}
    THEN {<<>>}
    ELSE LET top == {x \in S : sess[x].updated_at = MaxUpdated(sess, S)}
         IN  UNION {{<<SessionRow(sess, x)>> \o rest :
                        rest \in OrderByUpdatedDesc(sess, S \ {x})} : x \in top}

\* SELECT s.*, COUNT(c.id) ... GROUP BY s.id ORDER BY s.updated_at DESC
getAllSessions == OrderByUpdatedDesc(sessions, DOMAIN sessions)

(***************************************************************************)
(* The generation adapter and the HTTP handlers of the server.             *)
(***************************************************************************)
VARIABLES
  req,             \* the chat requests: handler position and locals
  unsent,          \* chat bodies the clients have still to send
  opsLeft,         \* session-management requests still to be served
  env,             \* process.env of the server
  res,             \* the reply to the latest request other than a chat request
  client           \* the state of the browser client: session list, open session

vars == <<sessions, conversations, lastID, now, pendingTouch, req, unsent,
          opsLeft, env, res,
         client>>

store == <<sessions, conversations, lastID, pendingTouch>>

\* body.message of the chat requests
NoMessage == <<Absent>>

MsgBlank == <<" ">>

MsgHi == <<" ", "h", "i", " ">>

MsgExcitedBug == <<"E", "x", "c", "i", "t", "e", "d", " ", "b", "u", "g">>

\* the JSON body of POST /api/chat
Body(message, sessionId, mode) ==
  [message |-> message, sessionId |-> sessionId, mode |-> mode]

\* the bodies the clients send, each once, in any order
ChatBodies ==
  {Body(MsgBlank, GeneratedSession(0), "research"),
   Body(MsgHi, NoSessionId, Absent),
   Body(MsgExcitedBug, DefaultSession, "research")}

Titles == {<<"T">>}

\* process.env.GEMINI_API_KEY when the variable is not set
NoKey == ""

\* a configured credential
SomeKey == "key"

\* a middleware that lets every request through
KeyUnchecked == TRUE

\* !process.env.GEMINI_API_KEY is false: the middleware calls next()
KeyConfigured == env.GEMINI_API_KEY # NoKey

\* the error field of the 503 body of the API-key middleware
Unavailable == <<"Service temporarily unavailable - configuration issue">>

DidntCatch == <<"I didn't catch that. Can you type something?">>

SomethingWrong == <<"Something went wrong. Let's try that again.">>

RateLimited == <<"I'm getting rate limited. Give me a minute and try again!">>

Confused == <<"Something about that message confused me. Can you rephrase it?">>

Trouble == <<"I'm having trouble connecting right now. Can you try again?">>

Apologies == {RateLimited, Confused, Trouble}

\* res.status(code).json(body) of the endpoints other than /api/chat
Reply(code, body) == [status |-> code, body |-> body]

\* no such request has been answered yet
NoReply == Reply(0, <<>>)

\* {success: true}
SuccessBody == [success |-> TRUE]

\* the reply of a request the API-key middleware stops, or whose store call
\* rejects with the handler answering 500 and body
StoppedReply(body) ==
  IF KeyConfigured THEN Reply(500, body) ELSE Reply(503, [error |-> Unavailable])

\* the text the provider returns when the call succeeds
ProviderText == <<"provider text">>

\* error.status of a failed provider call; NoStatus: the error carries none
NoStatus == 0

ErrorStatuses == {NoStatus, 400, 401, 403, 404, 429, 500}

\* retries: number = 2
DefaultRetries == 2

\* getConversationHistory(sessionId, 10) of the chat handler
ChatHistoryLimit == 10

\* getConversationHistory(sessionId, 50) of GET /api/history/:sessionId
EndpointHistoryLimit == 50

\* the retry test without the 403 exclusion
ShouldRetryOn403(retries, status) == retries > 0 /\ status # 400

\* the retry test that lets the budget run below zero
ShouldRetryUnbounded(retries, status) ==
  retries >= 0 /\ status # 400 /\ status # 403

\* catch branch of generateAIResponse: retry or give up
ShouldRetry(retries, status) == retries > 0 /\ status # 400 /\ status # 403

\* context-specific error messages of generateAIResponse
Apology(status) ==
  IF status = 429 THEN RateLimited
  ELSE IF status = 400 \/ status = 403 THEN Confused
  ELSE Trouble

\* validation by !message alone: a whitespace-only message passes
InvalidMessageUntrimmed(message) == message = NoMessage \/ message = <<>>

\* !message || !message.trim()
InvalidMessage(message) ==
  message = NoMessage \/ message = <<>> \/ Trim(message) = <<>>

\* the whole trimmed message as title
ChatTitleWhole(trimmed) == trimmed \o Ellipsis

\* trimmedMessage.substring(0, 50) + '...'
ChatTitle(trimmed) == Substring(trimmed, 0, TitleLen) \o Ellipsis

\* type Mode = 'friend' | 'research' | 'code': the keys of prompts
Modes == {"friend", "research", "code"}

\* the template of a mode; only the friend template interpolates the mood
Template(mode, mood) ==
  IF mode = "friend"
    THEN <<"You are D.R.O.S.S, a caring AI companion. Current detected mood: ",
           mood, ". Respond accordingly.">>
  ELSE IF mode = "research"
    THEN <<"You are D.R.O.S.S in Research Mode">>
  ELSE <<"You are D.R.O.S.S in Code Mode">>

\* getSystemPrompt: prompts[mode]; a key that prompts does not have yields
\* undefined, which the template literal of the prompt prints as 'undefined'
getSystemPrompt(mode, mood) ==
  IF mode \in Modes THEN Template(mode, mood) ELSE <<"undefined">>

\* the first n elements in place of the last n
SliceFirst(s, n) == SubSeq(s, 1, Min(n, Len(s)))

\* Array.prototype.slice(-n): the last n elements, all when there are fewer
Slice(s, n) == SubSeq(s, IF Len(s) > n THEN Len(s) - n + 1 ELSE 1, Len(s))

\* history.slice(-6)
PromptTurns == 6

\* `${msg.role === 'user' ? 'User' : 'D.R.O.S.S'}: ${msg.content}`
HistoryLine(msg) ==
  <<IF msg.role = "user" THEN "User: " ELSE "D.R.O.S.S: ">> \o msg.content

\* the prompt of generateAIResponse, as its lines: the system prompt, the
\* heading, one line per turn of history.slice(-6) (joined with newlines), the
\* new user message with its mood, and the cue
Prompt(message, mood, mode, history) ==
  <<getSystemPrompt(mode, mood), <<"Previous conversation:">>>>
    \o [i \in 1..Len(Slice(history, PromptTurns)) |->
          HistoryLine(Slice(history, PromptTurns)[i])]
    \o <<<<"User (", mood, "): ">> \o message, <<"D.R.O.S.S:">>>>

\* generateAIResponse(trimmedMessage, detectedMood, detectedMode, history)
PromptOf(rec) == Prompt(rec.trimmed, rec.mood, rec.detectedMode, rec.history)

\* the handler calling the provider before it saves the user turn
PipelineGenerateFirst ==
  <<"createSession", "classify", "loadHistory", "generate", "saveUser",
    "saveAssistant", "respond">>

\* the statements of the chat handler after validation, in program order;
\* classify and respond run synchronously, the others are awaited
Pipeline ==
  <<"createSession", "classify", "saveUser", "loadHistory", "generate",
    "saveAssistant", "respond">>

\* the step the handler runs after step has completed
StepAfter(step) ==
  LET i == CHOOSE k \in 1..Len(Pipeline) : Pipeline[k] = step
  IN  IF i = Len(Pipeline) THEN "done" ELSE Pipeline[i + 1]

\* no follow-up request of the client is under way
NoPending == [kind |-> "none", id |-> NoSessionId]

\* the client as it starts: useState([]) for sessions, useState('default')
\* for currentSessionId; switched tells how the last deletion of the open
\* session ended
NewClient ==
  [sessions |-> <<>>, currentSessionId |-> DefaultSession,
   pending |-> NoPending, switched |-> "none"]

\* a handler slot: the locals of the handler, and for the properties the
\* steps it completed (log), the provider calls it made (calls), the ids its
\* inserts returned (written), the table size when it arrived (turnsAtStart)
\* and the step whose failure ended it (failedAt)
IdleRequest ==
  [pc |-> "idle", message |-> <<>>, sessionId |-> NoSessionId, mode |-> Absent,
   trimmed |-> <<>>, mood |-> "", detectedMode |-> "", history |-> <<>>,
   retries |-> 0, calls |-> 0, prompt |-> <<>>, genFailed |-> FALSE,
   response |-> <<>>,
   written |-> <<>>, turnsAtStart |-> 0, status |-> 0, reply |-> <<>>,
   replyMood |-> "", replyMode |-> "", failedAt |-> "", log |-> <<>>]

Init ==
  /\ sessions = <<>>
  /\ conversations = <<>>
  /\ lastID = 0
  /\ now = 0
  /\ pendingTouch = [sid \in SessionIds |-> 0]
  /\ req = [r \in Requests |-> IdleRequest]
  /\ unsent = ChatBodies
  /\ opsLeft = MaxSessionOps
  /\ env = [GEMINI_API_KEY |-> SomeKey]
  /\ client = NewClient
  /\ res = NoReply

\* the clock advances
Tick ==
  /\ now < MaxClock
  /\ now' = now + 1
  /\ UNCHANGED <<store, req, unsent, opsLeft, env, client, res>>

\* res.status(code).json({response, mood, mode}) ends the handler
Respond(rec, code, text, mood, mode) ==
  [rec EXCEPT !.pc = "done", !.status = code, !.reply = text,
              !.replyMood = mood, !.replyMode = mode,
              !.history = <<>>, !.prompt = <<>>, !.retries = 0,
              !.log = Append(@, "respond")]

\* the awaited step has rejected
Rejected(rec, step) == [rec EXCEPT !.failedAt = step]

\* a catch branch that swallows the error and lets the handler go on
FailSwallowed(rec) ==
  [rec EXCEPT !.pc = IF rec.failedAt = "saveAssistant" THEN "done"
                     ELSE "saveAssistant",
              !.status = IF rec.failedAt = "saveAssistant" THEN 200 ELSE 0]

\* a catch branch that logs the error and sends nothing
FailSilent(rec) == [rec EXCEPT !.pc = "caught"]

\* catch branch of the chat handler: the fixed 500 reply
Fail(rec) ==
  Respond(rec, 500, SomethingWrong, "neutral", OrFriend(rec.mode))

\* the handler runs on from rec.pc until its next await: classification and
\* the 200 reply need no I/O
RECURSIVE RunOn(_)
RunOn(rec) ==
  IF rec.pc = "classify"
    THEN RunOn([rec EXCEPT !.pc = StepAfter("classify"),
                  !.mood = detectMood(rec.trimmed),
                  !.detectedMode = detectMode(rec.trimmed, rec.mode),
                  !.log = Append(@, "classify")])
  ELSE IF rec.pc = "respond"
    THEN [Respond(rec, 200, rec.response, rec.mood, rec.detectedMode)
            EXCEPT !.pc = StepAfter("respond")]
  ELSE rec

\* the awaited step has resolved: the handler continues after it
Resolve(rec, step) ==
  RunOn([rec EXCEPT !.pc = StepAfter(step), !.log = Append(@, step)])

\* POST /api/chat arrives: the API-key middleware answers 503 or passes the
\* request on to the handler, which destructures the body, validates it and
\* issues createSession
ChatReceive(r) ==
  /\ req[r].pc \in {"idle", "done"}
  /\ \E body \in unsent :
       LET sid == IF body.sessionId = NoSessionId THEN DefaultSession
                                                 ELSE body.sessionId
           in  == [IdleRequest EXCEPT !.message = body.message,
                                      !.sessionId = sid, !.mode = body.mode,
                                      !.turnsAtStart = Len(conversations)]
       IN  /\ unsent' = unsent \ {body}
           /\ req' = [req EXCEPT ![r] =
                IF ~KeyConfigured
                  THEN Respond(Rejected(in, "configuration"), 503,
                               Unavailable, Absent, Absent)
                ELSE IF InvalidMessage(body.message)
                  THEN Respond(Rejected(in, "validate"), 400, DidntCatch,
                               "neutral", OrFriend(body.mode))
                  ELSE RunOn([in EXCEPT !.pc = Pipeline[1],
                                        !.trimmed = Trim(body.message)])]
  /\ UNCHANGED <<store, now, env, client, res, opsLeft>>

\* await createSession(sessionId, trimmedMessage.substring(0, 50) + '...')
ChatCreateSession(r) ==
  /\ req[r].pc = "createSession"
  /\ \/ /\ sessions' = createSession(sessions, req[r].sessionId,
                                     ChatTitle(req[r].trimmed), now)
        /\ req' = [req EXCEPT ![r] = Resolve(@, "createSession")]
     \/ /\ req' = [req EXCEPT ![r] = Fail(Rejected(@, "createSession"))]
        /\ UNCHANGED sessions
  /\ UNCHANGED <<conversations, lastID, pendingTouch, now, env, client, res, unsent, opsLeft>>

\* await saveMessage(sessionId, role, content, detectedMood, detectedMode):
\* the INSERT runs, its callback issues touchSession and resolves lastID
SaveTurn(r, role, content, step) ==
  \/ /\ InsertAllowed(sessions, req[r].sessionId)
     /\ lastID' = lastID + 1
     /\ conversations' = saveMessage(conversations, lastID + 1,
                           req[r].sessionId, role, content, req[r].mood,
                           req[r].detectedMode, now)
     /\ pendingTouch' = [pendingTouch EXCEPT ![req[r].sessionId] = @ + 1]
     /\ req' = [req EXCEPT ![r] =
          Resolve([@ EXCEPT !.written = Append(@, lastID + 1)], step)]
     /\ UNCHANGED sessions
  \/ /\ req' = [req EXCEPT ![r] = Fail(Rejected(@, step))]
     /\ UNCHANGED store

ChatSaveUser(r) ==
  /\ req[r].pc = "saveUser"
  /\ SaveTurn(r, "user", req[r].trimmed, "saveUser")
  /\ UNCHANGED <<now, env, client, res, unsent, opsLeft>>

\* const history = await getConversationHistory(sessionId, 10)
ChatLoadHistory(r) ==
  /\ req[r].pc = "loadHistory"
  /\ \/ \E rows \in getConversationHistory(req[r].sessionId, ChatHistoryLimit) :
          req' = [req EXCEPT ![r] =
            Resolve([@ EXCEPT !.history = rows, !.retries = DefaultRetries],
                    "loadHistory")]
     \/ req' = [req EXCEPT ![r] = Fail(Rejected(@, "loadHistory"))]
  /\ UNCHANGED <<store, now, env, client, res, unsent, opsLeft>>

\* generateAIResponse: the provider call returns text
ProviderReturns(r) ==
  /\ req[r].pc = "generate"
  /\ req' = [req EXCEPT ![r] =
       Resolve([@ EXCEPT !.calls = @ + 1, !.response = ProviderText,
                         !.prompt = PromptOf(req[r])],
               "generate")]
  /\ UNCHANGED <<store, now, env, client, res, unsent, opsLeft>>

\* an adapter that rethrows the error once it gives up retrying
ProviderFailsRethrown(r, status) ==
  /\ req[r].pc = "generate"
  /\ req' = [req EXCEPT ![r] =
       IF ShouldRetry(req[r].retries, status)
         THEN [@ EXCEPT !.calls = @ + 1, !.retries = @ - 1,
                        !.prompt = PromptOf(req[r]),
                        !.log = Append(@, "generate")]
         ELSE Fail(Rejected([@ EXCEPT !.calls = @ + 1, !.genFailed = TRUE],
                            "generate"))]
  /\ UNCHANGED <<store, now, env, client, res, unsent, opsLeft>>

\* generateAIResponse: the provider call throws an error with this status;
\* the catch branch calls itself with retries - 1 or returns an apology
ProviderFails(r, status) ==
  /\ req[r].pc = "generate"
  /\ req' = [req EXCEPT ![r] =
       IF ShouldRetry(req[r].retries, status)
         THEN [@ EXCEPT !.calls = @ + 1, !.retries = @ - 1,
                        !.prompt = PromptOf(req[r]),
                        !.log = Append(@, "generate")]
         ELSE Resolve([@ EXCEPT !.calls = @ + 1, !.genFailed = TRUE,
                                !.prompt = PromptOf(req[r]),
                                !.response = Apology(status)], "generate")]
  /\ UNCHANGED <<store, now, env, client, res, unsent, opsLeft>>

ChatSaveAssistant(r) ==
  /\ req[r].pc = "saveAssistant"
  /\ SaveTurn(r, "assistant", req[r].response, "saveAssistant")
  /\ UNCHANGED <<now, env, client, res, unsent, opsLeft>>

\* a queued touchSession statement runs
ApplyTouch(sid) ==
  /\ pendingTouch[sid] > 0
  /\ pendingTouch' = [pendingTouch EXCEPT ![sid] = @ - 1]
  /\ sessions' = touchSession(sessions, sid, now)
  /\ UNCHANGED <<conversations, lastID, now, env, client, res, req, unsent, opsLeft>>

\* POST /api/sessions: createSession('session-' + Date.now(), title)
PostSession(title) ==
  /\ opsLeft > 0
  /\ opsLeft' = opsLeft - 1
  /\ LET given == IF title = <<Absent>> THEN NewChatTitle ELSE title
     IN  \/ /\ KeyConfigured
            /\ sessions' = createSession(sessions, GeneratedSession(now),
                                         given, now)
            /\ res' = Reply(200, [id |-> GeneratedSession(now),
                                  title |-> given])
         \/ /\ UNCHANGED sessions
            /\ res' = StoppedReply([id |-> <<>>, title |-> <<>>])
  /\ UNCHANGED <<conversations, lastID, pendingTouch, now, env, client, req, unsent>>

\* PATCH /api/sessions/:sessionId
PatchSession(sid, title) ==
  /\ opsLeft > 0
  /\ opsLeft' = opsLeft - 1
  /\ \/ /\ KeyConfigured
        /\ sessions' = updateSessionTitle(sessions, sid, title, now)
        /\ res' = Reply(200, SuccessBody)
     \/ /\ UNCHANGED sessions
        /\ res' = StoppedReply([error |-> <<"Failed to update session">>])
  /\ UNCHANGED <<conversations, lastID, pendingTouch, now, env, client, req, unsent>>

\* DELETE /api/sessions/:sessionId answers {success: true}
DeleteSessionOk(sid) ==
  /\ opsLeft > 0
  /\ opsLeft' = opsLeft - 1
  /\ KeyConfigured
  /\ sessions' = deleteSession(sessions, sid)
  /\ conversations' = CascadeDelete(conversations, sid)
  /\ res' = Reply(200, SuccessBody)
  /\ UNCHANGED <<lastID, pendingTouch, now, env, client, req, unsent>>

\* DELETE /api/sessions/:sessionId is stopped by the middleware (503) or
\* fails in the store (500)
DeleteSessionFails(sid) ==
  /\ opsLeft > 0
  /\ opsLeft' = opsLeft - 1
  /\ res' = StoppedReply([error |-> <<"Failed to delete session">>])
  /\ UNCHANGED <<store, now, env, client, req, unsent>>

\* GET /api/health, behind the API-key middleware like every route
GetHealth ==
  /\ res' = IF KeyConfigured
              THEN Reply(200, [status |-> <<"D.R.O.S.S is alive!">>,
                               timestamp |-> now,
                               geminiReady |-> env.GEMINI_API_KEY # NoKey])
              ELSE Reply(503, [error |-> Unavailable])
  /\ UNCHANGED <<store, now, env, client, req, unsent, opsLeft>>

\* the chat handler and the generation adapter, one chat request in flight
\* at a time
Next ==
  \/ Tick
  \/ \E r \in Serial : ChatReceive(r)
  \/ \E r \in Serial : ChatCreateSession(r)
  \/ \E r \in Serial : ChatSaveUser(r)
  \/ \E r \in Serial : ChatLoadHistory(r)
  \/ \E r \in Serial : ProviderReturns(r)
  \/ \E r \in Serial, status \in ErrorStatuses : ProviderFails(r, status)
  \/ \E r \in Serial : ChatSaveAssistant(r)
  \/ \E sid \in SessionIds : ApplyTouch(sid)

Spec == Init /\ [][Next]_vars

\* the provider refuses the request: a failure that is not retried
Refused == 400

\* the chat handler together with the session-management endpoints; the
\* provider answers or refuses each call
NextSessions ==
  \/ Tick
  \/ \E r \in Serial : ChatReceive(r)
  \/ \E r \in Serial : ChatCreateSession(r)
  \/ \E r \in Serial : ChatSaveUser(r)
  \/ \E r \in Serial : ChatLoadHistory(r)
  \/ \E r \in Serial : ProviderReturns(r)
  \/ \E r \in Serial : ProviderFails(r, Refused)
  \/ \E r \in Serial : ChatSaveAssistant(r)
  \/ \E sid \in SessionIds : ApplyTouch(sid)
  \/ \E title \in Titles \cup {<<Absent>>} : PostSession(title)
  \/ \E sid \in SessionIds, title \in Titles : PatchSession(sid, title)
  \/ \E sid \in SessionIds : DeleteSessionOk(sid)
  \/ \E sid \in SessionIds : DeleteSessionFails(sid)

SpecSessions == Init /\ [][NextSessions]_vars

\* the chat bodies that pass validation
StoreBodies == {body \in ChatBodies : ~InvalidMessage(body.message)}

\* the store before the first request, the clients about to send well-formed
\* chat requests only
InitStore ==
  /\ sessions = <<>>
  /\ conversations = <<>>
  /\ lastID = 0
  /\ now = 0
  /\ pendingTouch = [sid \in SessionIds |-> 0]
  /\ req = [r \in Requests |-> IdleRequest]
  /\ unsent = StoreBodies
  /\ opsLeft = MaxSessionOps
  /\ env = [GEMINI_API_KEY |-> SomeKey]
  /\ client = NewClient
  /\ res = NoReply

\* the statements that reach the store: the chat handler with a provider
\* that answers, and the session-management endpoints
NextStore ==
  \/ Tick
  \/ \E r \in Serial : ChatReceive(r)
  \/ \E r \in Serial : ChatCreateSession(r)
  \/ \E r \in Serial : ChatSaveUser(r)
  \/ \E r \in Serial : ChatLoadHistory(r)
  \/ \E r \in Serial : ProviderReturns(r)
  \/ \E r \in Serial : ChatSaveAssistant(r)
  \/ \E sid \in SessionIds : ApplyTouch(sid)
  \/ \E title \in Titles \cup {<<Absent>>} : PostSession(title)
  \/ \E sid \in SessionIds, title \in Titles : PatchSession(sid, title)
  \/ \E sid \in SessionIds : DeleteSessionOk(sid)
  \/ \E sid \in SessionIds : DeleteSessionFails(sid)

SpecStore == InitStore /\ [][NextStore]_vars

(***************************************************************************)
(* Properties of the chat pipeline and the generation adapter.             *)
(***************************************************************************)
IsPrefix(a, b) == Len(a) <= Len(b) /\ SubSeq(b, 1, Len(a)) = a

Repeat(x, n) == [i \in 1..n |-> x]

RowWithId(id) == {row \in Rows : row.id = id}

\* the steps of a request that made n provider calls and answered 200
FullLog(n) ==
  <<"createSession", "classify", "saveUser", "loadHistory">>
    \o Repeat("generate", n) \o <<"saveAssistant", "respond">>

\* C1: a chat request that answers 200 has run classify, save user turn, load
\* history, the provider calls, save assistant turn and respond in exactly
\* this order, one at a time; while it runs its steps form a prefix of that
\* order, a provider call is only made once the user turn is stored, and the
\* 200 reply is only sent once the assistant turn is stored.
C1_StepOrder ==
  \A r \in Requests :
    /\ req[r].status = 200 =>
         /\ req[r].calls >= 1
         /\ req[r].log = FullLog(req[r].calls)
         /\ Len(req[r].written) = 2
         /\ \E row \in RowWithId(req[r].written[2]) : row.role = "assistant"
    /\ (req[r].status = 0 /\ req[r].pc # "idle") =>
         \E n \in 0..(DefaultRetries + 1) : IsPrefix(req[r].log, FullLog(n))
    /\ (req[r].pc = "generate" \/ req[r].calls > 0) =>
         /\ Len(req[r].written) >= 1
         /\ \E row \in RowWithId(req[r].written[1]) : row.role = "user"

C1_Witness ==
  \E r \in Requests : req[r].status = 200 /\ req[r].calls = 2

\* C2: a chat request that answers 200 has added exactly two rows to the
\* turn table, both under its session: first the user turn with the trimmed
\* message, then the assistant turn with the text of the reply.
C2_TwoTurns ==
  \A r \in Requests :
    req[r].status = 200 =>
      LET n == req[r].turnsAtStart
      IN  /\ Len(conversations) = n + 2
          /\ req[r].written = <<conversations[n + 1].id, conversations[n + 2].id>>
          /\ conversations[n + 1].id < conversations[n + 2].id
          /\ conversations[n + 1].session_id = req[r].sessionId
          /\ conversations[n + 2].session_id = req[r].sessionId
          /\ conversations[n + 1].role = "user"
          /\ conversations[n + 1].content = Trim(req[r].message)
          /\ conversations[n + 2].role = "assistant"
          /\ conversations[n + 2].content = req[r].reply

\* the second request has answered 200 after a message with blanks around it
C2_Witness ==
  \E r \in Requests :
    /\ req[r].status = 200
    /\ req[r].message = MsgHi
    /\ req[r].turnsAtStart = 2
    /\ conversations[3].content = <<"h", "i">>

\* the steps completed before the step that failed, then the reply
FailedLog(step, n) ==
  IF step = "loadHistory"
    THEN <<"createSession", "classify", "saveUser", "respond">>
    ELSE <<"createSession", "classify", "saveUser", "loadHistory">>
           \o Repeat("generate", n) \o <<"respond">>

\* C3: when the history load or the assistant-turn save of a chat request
\* fails, the request ends at once with the fixed 500 reply, runs no later
\* step, and its user turn is still in the store.
C3_FailureShortCircuits ==
  \A r \in Requests :
    req[r].failedAt \in {"loadHistory", "saveAssistant"} =>
      /\ req[r].pc = "done"
      /\ req[r].status = 500
      /\ req[r].reply = SomethingWrong
      /\ req[r].replyMood = "neutral"
      /\ req[r].log = FailedLog(req[r].failedAt, req[r].calls)
      /\ Len(req[r].written) = 1
      /\ \E row \in RowWithId(req[r].written[1]) :
           /\ row.role = "user"
           /\ row.content = req[r].trimmed
           /\ row.session_id = req[r].sessionId

C3_Witness ==
  \E r \in Requests :
    /\ req[r].failedAt = "saveAssistant"
    /\ req[r].status = 500
    /\ RowWithId(req[r].written[1]) # {}

\* C4: a failing provider call never fails the chat request: the adapter
\* resolves to one of its fixed apology strings, the request goes on to save
\* that string as the assistant turn and, that save done, answers 200 with it.
C4_FailureAbsorbed ==
  \A r \in Requests :
    req[r].genFailed =>
      /\ req[r].response \in Apologies
      /\ req[r].failedAt \in {"", "saveAssistant"}
      /\ req[r].pc \in {"saveAssistant", "done"}
      /\ (req[r].pc = "done" /\ req[r].failedAt = "") =>
           /\ req[r].status = 200
           /\ req[r].reply = req[r].response
           /\ \E row \in RowWithId(req[r].written[2]) :
                row.role = "assistant" /\ row.content = req[r].response

C4_Witness ==
  \E r \in Requests :
    /\ req[r].genFailed
    /\ req[r].status = 200
    /\ req[r].reply = Trouble
    /\ req[r].calls = DefaultRetries + 1

\* the 4xx statuses the provider may fail with
ClientErrorStatuses == {status \in ErrorStatuses : status >= 400 /\ status < 500}

\* C5 as stated: no provider failure with a 4xx status is followed by another
\* provider call.
C5_NoRetryOnClientError ==
  [][\A r \in Requests, status \in ClientErrorStatuses :
       ProviderFails(r, status) => req'[r].pc # "generate"]_vars

\* C5 amended: a provider failure with status 400 or 403 is not retried;
\* every other failure (401, 404 and 429 included) is retried while attempts
\* remain, and ends the adapter when none remains.
C5_NoRetryOn400Or403 ==
  [][\A r \in Requests, status \in ErrorStatuses :
       ProviderFails(r, status) =>
         IF status \in {400, 403}
           THEN req'[r].pc # "generate" /\ req'[r].response = Confused
           ELSE IF req[r].retries > 0
             THEN /\ req'[r].pc = "generate"
                  /\ req'[r].retries = req[r].retries - 1
             ELSE req'[r].pc # "generate"]_vars

\* the first provider call failed with 400 or 403 and no second call was made
C5_Witness ==
  \E r \in Requests :
    /\ req[r].pc = "saveAssistant"
    /\ req[r].calls = 1
    /\ req[r].response = Confused

\* C6: the adapter calls the provider at most retries + 1 times, each retry
\* lowers the remaining attempts by one and never below 0, a call that was
\* issued is left only by the adapter returning its text, and every call of
\* the adapter ends provided the provider calls return or fail.
C6_BoundedRetries ==
  /\ [](\A r \in Requests :
          /\ req[r].calls <= DefaultRetries + 1
          /\ req[r].retries >= 0
          /\ req[r].pc = "generate" =>
               req[r].calls + req[r].retries = DefaultRetries)
  /\ [][\A r \in Requests :
          req[r].pc = "generate" =>
            \/ /\ req'[r].pc = "generate"
               /\ req'[r].retries < req[r].retries
               /\ req'[r].calls = req[r].calls + 1
            \/ /\ req'[r].pc = "saveAssistant"
               /\ req'[r].response \in Apologies \cup {ProviderText}
            \/ req'[r] = req[r]]_vars
  /\ \A r \in Requests :
       (req[r].pc = "generate") ~> (req[r].pc = "saveAssistant")

C6_Witness ==
  \E r \in Requests :
    /\ req[r].pc = "saveAssistant"
    /\ req[r].calls = DefaultRetries + 1
    /\ req[r].response = ProviderText

\* every provider call returns or fails
FairSpec ==
  /\ Spec
  /\ \A r \in Serial :
       WF_vars(ProviderReturns(r)
                 \/ \E status \in ErrorStatuses : ProviderFails(r, status))

(***************************************************************************)
(* Properties of the store under the session-management endpoints.         *)
(***************************************************************************)
\* C7: every stored turn's session_id is the id of an existing session row.
C7_TurnsReferenceSessions ==
  \A row \in Rows : row.session_id \in DOMAIN sessions

\* C8: once DELETE /api/sessions/:id has succeeded, no turn of that session
\* is left in the store and the history of that id is empty.
C8_DeleteCascades ==
  [][\A sid \in SessionIds :
       DeleteSessionOk(sid) =>
         /\ \A i \in 1..Len(conversations') :
              conversations'[i].session_id # sid
         /\ getConversationHistory(sid, EndpointHistoryLimit)' = {<<>>}]_vars

\* C9: in every row getAllSessions returns, message_count is the number of
\* turns stored under that session's id, 0 for a session without turns.
C9_MessageCount ==
  \A list \in getAllSessions :
    \A i \in 1..Len(list) :
      list[i].message_count =
        Cardinality({k \in 1..Len(conversations) :
                       conversations[k].session_id = list[i].id})

\* the listing holds a session without turns next to one with several
C9_Witness ==
  \E list \in getAllSessions :
    \E i, j \in 1..Len(list) :
      list[i].message_count = 0 /\ list[j].message_count >= 2

\* C10: getConversationHistory(sessionId, limit) returns at most limit turns,
\* all of that session, oldest first by timestamp, turns with equal
\* timestamps in increasing id order.
C10_HistoryOrdered ==
  \A sid \in SessionIds, limit \in 1..MaxLimit :
    \A rows \in getConversationHistory(sid, limit) :
      /\ Len(rows) <= limit
      /\ \A i \in 1..Len(rows) : rows[i].session_id = sid
      /\ \A i, j \in 1..Len(rows) :
           i < j =>
             \/ rows[i].timestamp < rows[j].timestamp
             \/ /\ rows[i].timestamp = rows[j].timestamp
                /\ rows[i].id < rows[j].id

(***************************************************************************)
(* Properties of the history listing.                                      *)
(***************************************************************************)
\* C11: getConversationHistory(sessionId, limit) returns min(limit, n) of the
\* n turns of the session, and they are the most recently appended ones: no
\* returned turn has a smaller id than a turn of the session that is left out.
C11_MostRecentTurns ==
  \A sid \in SessionIds, limit \in 1..MaxLimit :
    \A rows \in getConversationHistory(sid, limit) :
      LET returned == {rows[i] : i \in 1..Len(rows)}
      IN  /\ Len(rows) = Min(limit, Cardinality(TurnsOf(sid)))
          /\ Cardinality(returned) = Len(rows)
          /\ returned \subseteq TurnsOf(sid)
          /\ \A kept \in returned, left \in TurnsOf(sid) \ returned :
               left.id < kept.id

\* C12: when saveMessage has resolved with id k, every listing of that
\* session with limit >= 1 ends with turn k, carrying the saved role and
\* content.
C12_SavedTurnIsLast ==
  [][\A r \in Requests :
       (ChatSaveUser(r) \/ ChatSaveAssistant(r)) /\ lastID' = lastID + 1 =>
         \A limit \in 1..MaxLimit :
           \A rows \in getConversationHistory(req[r].sessionId, limit)' :
             /\ Len(rows) >= 1
             /\ rows[Len(rows)].id = lastID'
             /\ rows[Len(rows)].role =
                  (IF req[r].pc = "saveUser" THEN "user" ELSE "assistant")
             /\ rows[Len(rows)].content =
                  (IF req[r].pc = "saveUser" THEN req[r].trimmed
                                             ELSE req[r].response)]_vars

(***************************************************************************)
(* Properties of the session table and the turn log.                       *)
(***************************************************************************)
\* the titles a session may be created with
CreateTitles ==
  {ChatTitle(Trim(body.message)) : body \in ChatBodies}
    \cup Titles \cup {NewChatTitle}

\* C13: createSession on an id that exists leaves the session table as it is
\* (title, created_at and updated_at of the row included) and the caller goes
\* on as after a successful insert; calling createSession a second time on
\* the same id, with any title at any time, changes nothing after the first.
C13_CreateIdempotent ==
  /\ [](\A sid \in SessionIds, title1, title2 \in CreateTitles,
           t \in now..MaxClock :
          LET once == createSession(sessions, sid, title1, now)
          IN  /\ createSession(once, sid, title2, t) = once
              /\ sid \in DOMAIN sessions => once = sessions)
  /\ [][\A r \in Requests :
          ChatCreateSession(r) /\ req[r].sessionId \in DOMAIN sessions =>
            /\ sessions' = sessions
            /\ req'[r].failedAt = "" => req'[r].pc = "saveUser"]_vars

\* a second chat request has passed createSession on the session the first
\* one created, later and with another title
C13_Witness ==
  \E r \in Requests :
    /\ req[r].pc = "saveUser"
    /\ req[r].turnsAtStart >= 1
    /\ req[r].sessionId \in DOMAIN sessions
    /\ sessions[req[r].sessionId].title # ChatTitle(req[r].trimmed)
    /\ sessions[req[r].sessionId].created_at < now

ListingSorted(list) ==
  /\ Len(list) = Cardinality(DOMAIN sessions)
  /\ {list[i].id : i \in 1..Len(list)} = DOMAIN sessions
  /\ \A i \in 1..Len(list) :
       /\ list[i].title = sessions[list[i].id].title
       /\ list[i].created_at = sessions[list[i].id].created_at
       /\ list[i].updated_at = sessions[list[i].id].updated_at
  /\ \A i, j \in 1..Len(list) :
       i < j => list[i].updated_at >= list[j].updated_at

\* session sid has just been renamed, or touched after a save
Refreshed(sid) ==
  /\ sid \in DOMAIN sessions
  /\ \/ ApplyTouch(sid)
     \/ \E title \in Titles :
          /\ PatchSession(sid, title)
          /\ sessions' = updateSessionTitle(sessions, sid, title, now)

TurnIds == {row.id : row \in Rows}

\* C16: a successful saveMessage appends exactly one turn, under the session
\* it names and with an id greater than every id issued before, and leaves
\* every stored turn as it was; createSession, rename and touch leave the
\* turn table unchanged; whatever the step, a stored turn is never altered,
\* and it is only removed by a session deletion.
C16_AppendOnly ==
  /\ [][\A r \in Requests :
          lastID' = lastID + 1 /\ (ChatSaveUser(r) \/ ChatSaveAssistant(r)) =>
            /\ Len(conversations') = Len(conversations) + 1
            /\ SubSeq(conversations', 1, Len(conversations)) = conversations
            /\ conversations'[Len(conversations')].session_id =
                 req[r].sessionId
            /\ conversations'[Len(conversations')].id > lastID
            /\ \A id \in TurnIds :
                 id < conversations'[Len(conversations')].id]_vars
  /\ [][conversations' # conversations =>
          ~(\/ \E r \in Requests : ChatCreateSession(r)
            \/ \E title \in Titles \cup {<<Absent>>} : PostSession(title)
            \/ \E sid \in SessionIds, title \in Titles :
                 PatchSession(sid, title)
            \/ \E sid \in SessionIds : ApplyTouch(sid))]_vars
  /\ [][\/ /\ Len(conversations') >= Len(conversations)
           /\ SubSeq(conversations', 1, Len(conversations)) = conversations
        \/ \E sid \in SessionIds : DeleteSessionOk(sid)]_vars
  /\ [](/\ \A i, j \in 1..Len(conversations) :
             i < j => conversations[i].id < conversations[j].id
        /\ \A id \in TurnIds : id <= lastID)

\* a session holding four turns has been renamed
C16_Witness ==
  /\ Len(conversations) = 4
  /\ \E sid \in DOMAIN sessions :
       /\ sessions[sid].title \in Titles
       /\ Cardinality(TurnsOf(sid)) = 4

(***************************************************************************)
(* Chat requests in flight at the same time.                               *)
(***************************************************************************)
\* two chat handlers interleave at their awaits; the provider answers or
\* refuses each call
NextConcurrent ==
  \/ Tick
  \/ \E r \in Requests : ChatReceive(r)
  \/ \E r \in Requests : ChatCreateSession(r)
  \/ \E r \in Requests : ChatSaveUser(r)
  \/ \E r \in Requests : ChatLoadHistory(r)
  \/ \E r \in Requests : ProviderReturns(r)
  \/ \E r \in Requests : ProviderFails(r, Refused)
  \/ \E r \in Requests : ChatSaveAssistant(r)
  \/ \E sid \in SessionIds : ApplyTouch(sid)

SpecConcurrent == Init /\ [][NextConcurrent]_vars

\* C17: when two chat requests on the same session are in flight and the
\* user turn of A was saved before the user turn of B, every history listing
\* that holds both turns has A's before B's.
C17_AppendOrderKept ==
  \A a, b \in Requests :
    (/\ a # b
     /\ Len(req[a].written) >= 1
     /\ Len(req[b].written) >= 1
     /\ req[a].sessionId = req[b].sessionId
     /\ req[a].written[1] < req[b].written[1]) =>
      \A limit \in {ChatHistoryLimit, EndpointHistoryLimit} :
        \A rows \in getConversationHistory(req[a].sessionId, limit) :
          \A i, j \in 1..Len(rows) :
            (rows[i].id = req[a].written[1] /\ rows[j].id = req[b].written[1])
              => i < j

(***************************************************************************)
(* The gates in front of the chat pipeline: credential and validation.     *)
(***************************************************************************)
MsgEmpty == <<>>

MsgSpaces == <<" ", "\t", "\n">>

\* chat bodies without a usable message, next to one valid body
GateBodies ==
  {Body(NoMessage, NoSessionId, Absent),
   Body(MsgEmpty, DefaultSession, "code"),
   Body(MsgSpaces, DefaultSession, ""),
   Body(MsgBlank, GeneratedSession(0), "research"),
   Body(MsgExcitedBug, DefaultSession, "research")}

\* the server is started with or without GEMINI_API_KEY in its environment
InitGate ==
  /\ sessions = <<>>
  /\ conversations = <<>>
  /\ lastID = 0
  /\ now = 0
  /\ pendingTouch = [sid \in SessionIds |-> 0]
  /\ req = [r \in Requests |-> IdleRequest]
  /\ unsent = GateBodies
  /\ opsLeft = MaxSessionOps
  /\ env \in [GEMINI_API_KEY : {NoKey, SomeKey}]
  /\ client = NewClient
  /\ res = NoReply

SpecGate == InitGate /\ [][Next]_vars

\* the message is missing, empty or made of whitespace only
MissingOrBlank(message) ==
  \/ message = NoMessage
  \/ \A i \in 1..Len(message) : message[i] \in Whitespace

\* C18: with the credential configured, a chat request whose message is
\* missing, empty or whitespace-only is answered at once with status 400, the
\* canned reply, mood neutral and the mode of the request (friend when the
\* request has none); it makes no provider call and no save, and sessions,
\* turns, id counter and queued touches are as before the request.
C18_ValidationRejects ==
  /\ [][\A r \in Requests, body \in GateBodies :
          (/\ ChatReceive(r)
           /\ body \in unsent
           /\ body \notin unsent'
           /\ env.GEMINI_API_KEY # NoKey
           /\ MissingOrBlank(body.message)) =>
            /\ req'[r].pc = "done"
            /\ req'[r].status = 400
            /\ req'[r].reply = DidntCatch
            /\ req'[r].replyMood = "neutral"
            /\ req'[r].replyMode =
                 (IF body.mode \in {Absent, ""} THEN "friend" ELSE body.mode)
            /\ store' = store]_vars
  /\ [](\A r \in Requests :
          req[r].status = 400 =>
            /\ req[r].log = <<"respond">>
            /\ req[r].calls = 0
            /\ req[r].written = <<>>
            /\ Len(conversations) = req[r].turnsAtStart)

\* a request without message and mode was answered 400 with mode friend
\* after an earlier request had filled the store
C18_Witness ==
  \E r \in Requests :
    /\ req[r].status = 400
    /\ req[r].message = NoMessage
    /\ req[r].replyMode = "friend"
    /\ Len(conversations) = 2
    /\ DefaultSession \in DOMAIN sessions

\* C19: when GEMINI_API_KEY is not set, every chat request is answered 503
\* at once, and no session, no turn, no touch and no provider call is ever
\* made.
C19_NoKeyNoWork ==
  /\ [][\A r \in Requests :
          ChatReceive(r) /\ env.GEMINI_API_KEY = NoKey =>
            /\ req'[r].pc = "done"
            /\ req'[r].status = 503
            /\ req'[r].reply = Unavailable
            /\ req'[r].calls = 0
            /\ store' = store]_vars
  /\ [](env.GEMINI_API_KEY = NoKey =>
          /\ sessions = <<>>
          /\ conversations = <<>>
          /\ lastID = 0
          /\ \A sid \in SessionIds : pendingTouch[sid] = 0
          /\ \A r \in Requests :
               /\ req[r].calls = 0
               /\ req[r].written = <<>>
               /\ req[r].status \in {0, 503})

\* a well-formed chat request was answered 503
C19_Witness ==
  \E r \in Requests :
    /\ env.GEMINI_API_KEY = NoKey
    /\ req[r].status = 503
    /\ req[r].message = MsgExcitedBug
    /\ unsent = {}

\* the fixed strings a failed chat request answers with
FriendlyStrings == {DidntCatch, SomethingWrong} \cup Apologies

\* C20: a chat request that has ended in a validation failure (400), a store
\* failure (500) or with a provider failure absorbed into its reply answers
\* a fixed friendly string, mood neutral and the mode the request passed in
\* (friend when it passed none).
C20_FailuresNeutral ==
  \A r \in Requests :
    (/\ req[r].pc = "done"
     /\ \/ req[r].status \in {400, 500}
        \/ req[r].genFailed) =>
      /\ req[r].reply \in FriendlyStrings
      /\ req[r].replyMood = "neutral"
      /\ req[r].replyMode =
           (IF req[r].mode \in {Absent, ""} THEN "friend" ELSE req[r].mode)

(***************************************************************************)
(* Properties of the session-management endpoints.                         *)
(***************************************************************************)
\* C21: PATCH and DELETE of a session id without a row leave sessions and
\* turns as they are and create no session, and both answer the same way:
\* {success: true} with status 200 unless the statement itself fails, in
\* which case each answers 500 with its own error text; neither has a
\* not-found reply.
C21_MissingIdConsistent ==
  [][\A sid \in SessionIds :
       sid \notin DOMAIN sessions =>
         /\ \A title \in Titles :
              PatchSession(sid, title) =>
                /\ sessions' = sessions
                /\ conversations' = conversations
                /\ res' \in {Reply(200, SuccessBody),
                             Reply(500, [error |->
                                           <<"Failed to update session">>])}
         /\ (DeleteSessionOk(sid) \/ DeleteSessionFails(sid)) =>
              /\ sessions' = sessions
              /\ conversations' = conversations
              /\ res' \in {Reply(200, SuccessBody),
                           Reply(500, [error |->
                                         <<"Failed to delete session">>])}]_vars

\* the first request served was a rename or a delete, no session existed,
\* and it was answered {success: true}
C21_Witness ==
  /\ opsLeft = MaxSessionOps - 1
  /\ unsent = StoreBodies
  /\ \A r \in Requests : req[r].pc = "idle"
  /\ sessions = <<>>
  /\ res = Reply(200, SuccessBody)

\* a message of 52 characters between blanks: longer than a title
MsgLong ==
  <<" ">> \o [i \in 1..52 |-> LowerCase[((i - 1) % 26) + 1]] \o <<" ">>

\* two chat requests on a session id that POST /api/sessions may also create
TitleBodies ==
  {Body(MsgLong, GeneratedSession(0), Absent),
   Body(MsgHi, GeneratedSession(0), "friend")}

InitTitles ==
  /\ sessions = <<>>
  /\ conversations = <<>>
  /\ lastID = 0
  /\ now = 0
  /\ pendingTouch = [sid \in SessionIds |-> 0]
  /\ req = [r \in Requests |-> IdleRequest]
  /\ unsent = TitleBodies
  /\ opsLeft = MaxSessionOps
  /\ env = [GEMINI_API_KEY |-> SomeKey]
  /\ client = NewClient
  /\ res = NoReply

\* the chat handler and the session-management endpoints within one second
\* of the clock
NextTitles ==
  \/ \E r \in Serial : ChatReceive(r)
  \/ \E r \in Serial : ChatCreateSession(r)
  \/ \E r \in Serial : ChatSaveUser(r)
  \/ \E r \in Serial : ChatLoadHistory(r)
  \/ \E r \in Serial : ProviderReturns(r)
  \/ \E r \in Serial : ChatSaveAssistant(r)
  \/ \E sid \in SessionIds : ApplyTouch(sid)
  \/ \E title \in Titles \cup {<<Absent>>} : PostSession(title)
  \/ \E sid \in SessionIds, title \in Titles : PatchSession(sid, title)
  \/ \E sid \in SessionIds : DeleteSessionOk(sid)
  \/ \E sid \in SessionIds : DeleteSessionFails(sid)

SpecTitles == InitTitles /\ [][NextTitles]_vars

\* the first 50 characters of text followed by three dots
Truncated(text) ==
  [i \in 1..(IF Len(text) < 50 THEN Len(text) ELSE 50) |-> text[i]]
    \o <<".", ".", ".">>

\* C22: when the createSession call of a chat request completes for an id
\* without a session row, the row exists afterwards and its title is the
\* first 50 characters of the trimmed message followed by '...'; when the id
\* has a row, whether a chat request or POST /api/sessions created it, the
\* session table is left as it is; and no step of a chat request ever
\* changes the title of an existing session.
C22_TitleFromFirstMessage ==
  /\ [][\A r \in Requests :
          ChatCreateSession(r) /\ req'[r].failedAt = "" =>
            IF req[r].sessionId \in DOMAIN sessions
              THEN sessions' = sessions
              ELSE /\ DOMAIN sessions' =
                        (DOMAIN sessions) \cup {req[r].sessionId}
                   /\ sessions'[req[r].sessionId].title =
                        Truncated(req[r].trimmed)]_vars
  /\ [][\A sid \in (DOMAIN sessions) \cap (DOMAIN sessions') :
          sessions'[sid].title # sessions[sid].title =>
            \E title \in Titles : PatchSession(sid, title)]_vars

\* the session was created by the long message, its title is cut to 50
\* characters plus dots, and the second message has been stored under it
C22_Witness ==
  \E sid \in DOMAIN sessions :
    /\ Len(sessions[sid].title) = 53
    /\ Cardinality(TurnsOf(sid)) = 4
    /\ \E row \in TurnsOf(sid) : row.content = <<"h", "i">>
    /\ \E row \in TurnsOf(sid) : Len(row.content) = 52

\* the session was created by POST /api/sessions with its own title and
\* holds the turns of a chat request
C22_WitnessExplicit ==
  \E sid \in DOMAIN sessions :
    /\ res = Reply(200, [id |-> sid, title |-> sessions[sid].title])
    /\ sessions[sid].title \in Titles \cup {NewChatTitle}
    /\ TurnsOf(sid) # {}

(***************************************************************************)
(* Properties of the prompt handed to the provider                        *)
(***************************************************************************)

\* the most turns a conversation holds before the first request arrives
MaxStored == 8

Numerals == <<"1", "2", "3", "4", "5", "6", "7", "8", "9", "10", "11", "12">>

\* the content of the i-th turn of an earlier conversation; no two are alike
StoredText(i) == <<"m", Numerals[i]>>

\* a message without a keyword of either classifier
MsgYo == <<"y", "o">>

\* one request that names no mode and one that names a mode outside the
\* type Mode, which the handler never validates
PromptBodies ==
  {Body(MsgHi, DefaultSession, Absent), Body(MsgYo, DefaultSession, "poet")}

\* the default session holds n turns of an earlier conversation, a user turn
\* and an assistant turn alternately, one per second before the clock starts
InitPrompt ==
  /\ \E n \in 0..MaxStored :
       /\ sessions = [sid \in {DefaultSession} |->
            [title |-> NewChatTitle, created_at |-> 0 - (n + 1),
             updated_at |-> 0 - 1]]
       /\ conversations = [i \in 1..n |->
            Turn(i, DefaultSession,
                 IF i % 2 = 1 THEN "user" ELSE "assistant",
                 StoredText(i), "neutral", "friend", i - (n + 1))]
       /\ lastID = n
  /\ now = 0
  /\ pendingTouch = [sid \in SessionIds |-> 0]
  /\ req = [r \in Requests |-> IdleRequest]
  /\ unsent = PromptBodies
  /\ opsLeft = MaxSessionOps
  /\ env = [GEMINI_API_KEY |-> SomeKey]
  /\ client = NewClient
  /\ res = NoReply

SpecPrompt == InitPrompt /\ [][Next]_vars

\* the line the prompt is to hold for a turn
LineOf(turn) ==
  <<IF turn.role = "user" THEN "User: " ELSE "D.R.O.S.S: ">> \o turn.content

\* C23: the prompt of every provider call holds, after the system prompt and
\* the heading, exactly the last min(6, n) turns of the n turns of the loaded
\* history, in the order of the history, each as a 'User: content' or
\* 'D.R.O.S.S: content' line, then the new user message, then the cue of the
\* assistant; no turn older than the last six has a line in the prompt
C23_PromptLastSix ==
  \A r \in Requests :
    req[r].prompt # <<>> =>
      LET h == req[r].history
          p == req[r].prompt
          n == Len(h)
          k == IF n < 6 THEN n ELSE 6
      IN  /\ Len(p) = k + 4
          /\ p[2] = <<"Previous conversation:">>
          /\ \A i \in 1..k : p[2 + i] = LineOf(h[n - k + i])
          /\ p[k + 3] =
               <<"User (", req[r].mood, "): ">> \o Trim(req[r].message)
          /\ p[k + 4] = <<"D.R.O.S.S:">>
          /\ \A j \in 1..(n - k) : \A i \in 1..Len(p) : p[i] # LineOf(h[j])

\* a provider call was made with a loaded history of more than six turns
C23_Witness ==
  \E r \in Requests :
    /\ req[r].pc = "saveAssistant"
    /\ req[r].calls > 0
    /\ Len(req[r].history) > 6
    /\ Len(req[r].prompt) = 10

\* C24: the system prompt of every provider call is the template of the
\* detected mode when that is friend, research or code, and the friend
\* template for every other mode, a mode string of the request that
\* detectMode returned unchanged included
C24_FallbackToFriend ==
  \A r \in Requests :
    req[r].prompt # <<>> =>
      req[r].prompt[1] =
        Template(IF req[r].detectedMode \in Modes THEN req[r].detectedMode
                                                  ELSE "friend",
                 req[r].mood)

(***************************************************************************)
(* The classifiers applied to texts directly                               *)
(***************************************************************************)

\* the most fragments a text is put together from
MaxWords == 2

\* the pieces of the texts: nothing, a blank, keywords of each label in
\* several letter cases, and a word that is no keyword
Fragments ==
  {<<>>,
   <<" ">>,
   <<"A", "W", "E", "S", "O", "M", "E">>,
   <<"A", "w", "e", "s", "o", "m", "e">>,
   <<"s", "a", "d">>,
   <<"T", "i", "r", "e", "d">>,
   <<"p", "u", "m", "p", "e", "d">>,
   <<"e", "x", "c", "i", "t", "e", "d">>,
   <<"d", "e", "B", "u", "g">>,
   <<"A", "P", "I">>,
   <<"l", "e", "a", "r", "n">>,
   <<"W", "h", "a", "t", " ", "i", "s">>,
   <<"o", "k">>}

RECURSIVE Phrases(_)
Phrases(n) ==
  IF n = 0 THEN {<<>>}
  ELSE {p \o f : p \in Phrases(n - 1), f \in Fragments}

MsgHelpDebug ==
  <<"h", "e", "l", "p", " ", "m", "e", " ", "d", "e", "b", "u", "g", " ", "t", "h", "i", "s", " ", "f", "u", "n", "c", "t", "i", "o", "n">>

MsgSoExcited ==
  <<"I", "'", "m", " ", "s", "o", " ", "e", "x", "c", "i", "t", "e", "d", " ", "a", "b", "o", "u", "t", " ", "t", "h", "i", "s", "!">>

\* the texts the classifiers are applied to
Texts == Phrases(MaxWords) \cup {MsgHelpDebug, MsgSoExcited}

\* the values of the parameter currentMode?: Mode
CurrentModes == Modes \cup {Absent}

\* a text and a current mode are chosen; no request is under way
InitClassify ==
  /\ sessions = <<>>
  /\ conversations = <<>>
  /\ lastID = 0
  /\ now = 0
  /\ pendingTouch = [sid \in SessionIds |-> 0]
  /\ \E text \in Texts, mode \in CurrentModes :
       req = [r \in Requests |->
               IF r \in Serial
                 THEN [IdleRequest EXCEPT !.message = text, !.mode = mode]
                 ELSE IdleRequest]
  /\ unsent = {}
  /\ opsLeft = MaxSessionOps
  /\ env = [GEMINI_API_KEY |-> SomeKey]
  /\ client = NewClient
  /\ res = NoReply

\* detectMood(text)
DetectMood(r) ==
  /\ req[r].mood = ""
  /\ req' = [req EXCEPT ![r].mood = detectMood(req[r].message)]
  /\ UNCHANGED <<store, now, env, client, res, unsent, opsLeft>>

\* detectMode(text, currentMode)
DetectMode(r) ==
  /\ req[r].detectedMode = ""
  /\ req' = [req EXCEPT ![r].detectedMode =
                          detectMode(req[r].message, req[r].mode)]
  /\ UNCHANGED <<store, now, env, client, res, unsent, opsLeft>>

NextClassify ==
  \/ \E r \in Serial : DetectMood(r)
  \/ \E r \in Serial : DetectMode(r)

SpecClassify == InitClassify /\ [][NextClassify]_vars

\* some word of the set occurs in the text, letter case apart
Occurs(words, text) ==
  \E word \in words : \E i \in 0..(Len(text) - Len(word)) :
    \A j \in 1..Len(word) : LowerChar(text[i + j]) = word[j]

\* the labels in the order of the tests, each with its keywords
MoodOrder ==
  <<[label |-> "happy", words |-> HappyWords],
    [label |-> "sad", words |-> SadWords],
    [label |-> "stressed", words |-> StressedWords],
    [label |-> "excited", words |-> ExcitedWords]>>

\* the first label of MoodOrder with a keyword in the text, else neutral
FirstMood(text) ==
  IF \E k \in 1..Len(MoodOrder) : Occurs(MoodOrder[k].words, text)
    THEN MoodOrder[CHOOSE k \in 1..Len(MoodOrder) :
           /\ Occurs(MoodOrder[k].words, text)
           /\ \A l \in 1..(k - 1) : ~Occurs(MoodOrder[l].words, text)].label
    ELSE "neutral"

Awesome == <<"a", "w", "e", "s", "o", "m", "e">>

\* C25: detectMood answers every text, with the first label, in the order
\* happy, sad, stressed, excited, that has a keyword in the text whatever the
\* letter case, and with neutral when there is none; a text that holds
\* 'awesome' in any letter case yields happy
C25_MoodFirstMatch ==
  \A r \in Serial :
    /\ req[r].mood = "" => ENABLED DetectMood(r)
    /\ req[r].mood # "" =>
         /\ req[r].mood = FirstMood(req[r].message)
         /\ Occurs({Awesome}, req[r].message) => req[r].mood = "happy"

\* detectMood answered a text that holds AWESOME in capitals after a keyword
\* of another label
C25_Witness ==
  \E r \in Serial :
    /\ req[r].message = <<"s", "a", "d", "A", "W", "E", "S", "O", "M", "E">>
    /\ req[r].mood = "happy"

(***************************************************************************)
(* The classifiers within the chat handler                                 *)
(***************************************************************************)

\* the two chat scenarios: a message about being excited under a session
\* id of its own, and a request for help with code that names no session
ScenarioBodies ==
  {Body(MsgSoExcited, GeneratedSession(0), Absent),
   Body(MsgHelpDebug, NoSessionId, Absent)}

InitScenarios ==
  /\ sessions = <<>>
  /\ conversations = <<>>
  /\ lastID = 0
  /\ now = 0
  /\ pendingTouch = [sid \in SessionIds |-> 0]
  /\ req = [r \in Requests |-> IdleRequest]
  /\ unsent = ScenarioBodies
  /\ opsLeft = MaxSessionOps
  /\ env = [GEMINI_API_KEY |-> SomeKey]
  /\ client = NewClient
  /\ res = NoReply

SpecScenarios == InitScenarios /\ [][Next]_vars

\* C26: the chat message "I'm so excited about this!" is answered with mood
\* 'excited', and the turns persisted under its session carry mood 'excited'
C26_ExcitedScenario ==
  /\ \A r \in Requests :
       (req[r].message = MsgSoExcited /\ req[r].status = 200) =>
         req[r].replyMood = "excited"
  /\ \A i \in 1..Len(conversations) :
       conversations[i].session_id = GeneratedSession(0) =>
         conversations[i].mood = "excited"

\* the chat message 'help me debug this function', sent without session id
\* and mode, is answered with mode code
C28_ChatExample ==
  \A r \in Requests :
    (req[r].message = MsgHelpDebug /\ req[r].status = 200) =>
      req[r].replyMode = "code"

\* the request for help with code was answered
C28_ChatExampleReached ==
  \E r \in Requests :
    /\ req[r].message = MsgHelpDebug
    /\ req[r].status = 200
    /\ req[r].sessionId = DefaultSession

(***************************************************************************)
(* Further properties of the classifiers applied directly                  *)
(***************************************************************************)

\* the text holds no keyword of either classifier
NoKeyword(text) ==
  /\ ~Occurs(HappyWords \cup SadWords \cup StressedWords \cup ExcitedWords,
             text)
  /\ ~Occurs(CodeWords \cup ResearchWords, text)

\* C27: for a text without any keyword, the empty text and a text of blanks
\* included, detectMood returns neutral and detectMode returns the current
\* mode that was passed, or friend when none was passed
C27_NoKeywordDefaults ==
  \A r \in Serial :
    NoKeyword(req[r].message) =>
      /\ req[r].mood # "" => req[r].mood = "neutral"
      /\ req[r].detectedMode # "" =>
           req[r].detectedMode =
             IF req[r].mode = Absent THEN "friend" ELSE req[r].mode

\* both classifiers answered a text of two blanks with current mode research
C27_Witness ==
  \E r \in Serial :
    /\ req[r].message = <<" ", " ">>
    /\ req[r].mode = "research"
    /\ req[r].mood = "neutral"
    /\ req[r].detectedMode = "research"

\* both classifiers answered the empty text with no current mode
C27_WitnessEmpty ==
  \E r \in Serial :
    /\ req[r].message = <<>>
    /\ req[r].mode = Absent
    /\ req[r].mood = "neutral"
    /\ req[r].detectedMode = "friend"

\* C28: detectMode returns code for a text with a code keyword, whatever
\* research keywords the text holds and whatever current mode is passed, and
\* research for a text with a research keyword and no code keyword
C28_CodeBeforeResearch ==
  \A r \in Serial :
    req[r].detectedMode # "" =>
      /\ Occurs(CodeWords, req[r].message) => req[r].detectedMode = "code"
      /\ (Occurs(ResearchWords, req[r].message)
            /\ ~Occurs(CodeWords, req[r].message)) =>
           req[r].detectedMode = "research"

\* detectMode answered a text with a research keyword before a code keyword
\* while the current mode was friend
C28_Witness ==
  \E r \in Serial :
    /\ req[r].message = <<"l", "e", "a", "r", "n", "A", "P", "I">>
    /\ req[r].mode = "friend"
    /\ req[r].detectedMode = "code"

(***************************************************************************)
(* Properties of the health endpoint                                       *)
(***************************************************************************)

\* the chat handler and the health endpoint, with and without the key
NextHealth ==
  \/ Next
  \/ GetHealth

SpecHealth == InitGate /\ [][NextHealth]_vars

\* C29: GET /api/health always answers normally with a status and a flag
\* geminiReady that tells whether the provider credential is configured;
\* the flag is false in that answer when the credential is missing
C29_HealthReportsCredential ==
  res # NoReply =>
    /\ res.status = 200
    /\ DOMAIN res.body = {"status", "timestamp", "geminiReady"}
    /\ res.body.geminiReady = (env.GEMINI_API_KEY # NoKey)

(***************************************************************************)
(* Termination of the chat handler                                         *)
(***************************************************************************)

\* the steps of the chat handler; the clock stands still, it has no part
\* in whether a request is answered
NextChat ==
  \/ \E r \in Serial : ChatReceive(r)
  \/ \E r \in Serial : ChatCreateSession(r)
  \/ \E r \in Serial : ChatSaveUser(r)
  \/ \E r \in Serial : ChatLoadHistory(r)
  \/ \E r \in Serial : ProviderReturns(r)
  \/ \E r \in Serial, status \in ErrorStatuses : ProviderFails(r, status)
  \/ \E r \in Serial : ChatSaveAssistant(r)
  \/ \E sid \in SessionIds : ApplyTouch(sid)

\* every store call and every provider call of a request returns or fails
FairChat ==
  /\ Init
  /\ [][NextChat]_vars
  /\ \A r \in Serial :
       /\ WF_vars(ChatCreateSession(r))
       /\ WF_vars(ChatSaveUser(r))
       /\ WF_vars(ChatLoadHistory(r))
       /\ WF_vars(ProviderReturns(r)
                    \/ \E status \in ErrorStatuses : ProviderFails(r, status))
       /\ WF_vars(ChatSaveAssistant(r))

\* the responses the handler has sent for the request of the slot
Responses(r) ==
  Cardinality({i \in 1..Len(req[r].log) : req[r].log[i] = "respond"})

\* the request of the slot passed validation and is not answered yet
InFlight(r) == req[r].pc \notin {"idle", "done"}

\* C30: a chat request that passed validation is answered at last, with
\* status 200 or 500, when every store call and every provider call returns
\* or fails; it has no response while it is under way and exactly one once
\* it is done, and nothing happens to an answered request but the arrival of
\* the next one
C30_ExactlyOneResponse ==
  /\ \A r \in Serial :
       InFlight(r) ~> (req[r].pc = "done" /\ req[r].status \in {200, 500})
  /\ [](\A r \in Serial :
         /\ InFlight(r) => (Responses(r) = 0 /\ req[r].status = 0)
         /\ req[r].pc = "done" => Responses(r) = 1)
  /\ [][\A r \in Serial :
         (req[r].pc = "done" /\ req'[r] # req[r]) =>
           (req'[r].log = <<>> \/ req'[r].log = <<"respond">>)]_vars

\* a request was answered 500 after its first provider call failed and the
\* retry returned, while an earlier one was answered 200
C30_Witness ==
  \E r \in Serial :
    /\ req[r].pc = "done"
    /\ req[r].status = 500
    /\ req[r].calls = 2
    /\ req[r].failedAt = "saveAssistant"
    /\ Len(conversations) >= 3

(***************************************************************************)
(* Concurrent chat requests and session deletions                          *)
(***************************************************************************)

\* two chat requests on the same session under way at once, a provider that
\* answers, and DELETE /api/sessions/:id between any two of their steps
NextInterleaved ==
  \/ \E r \in Requests : ChatReceive(r)
  \/ \E r \in Requests : ChatCreateSession(r)
  \/ \E r \in Requests : ChatSaveUser(r)
  \/ \E r \in Requests : ChatLoadHistory(r)
  \/ \E r \in Requests : ProviderReturns(r)
  \/ \E r \in Requests : ChatSaveAssistant(r)
  \/ \E sid \in SessionIds : ApplyTouch(sid)
  \/ \E sid \in SessionIds : DeleteSessionOk(sid)
  \/ \E sid \in SessionIds : DeleteSessionFails(sid)

SpecInterleaved == InitStore /\ [][NextInterleaved]_vars

\* the turns of the session with the role
TurnsWithRole(sid, role) ==
  {i \in 1..Len(conversations) :
     conversations[i].session_id = sid /\ conversations[i].role = role}

WrittenAt(r) ==
  {conversations[i].timestamp :
     i \in {j \in 1..Len(conversations) :
              \E k \in 1..Len(req[r].written) :
                conversations[j].id = req[r].written[k]}}

\* C32: saveMessage resolves only once the refresh of updated_at has been
\* applied, so a getAllSessions issued after a chat request was answered 200
\* lists the request's session with an updated_at that is not earlier than
\* the turns the request saved, and no refresh is outstanding
C32_RefreshBeforeResponse ==
  \A r \in Requests :
    (req[r].pc = "done" /\ req[r].status = 200) =>
      /\ pendingTouch[req[r].sessionId] = 0
      /\ \A list \in getAllSessions : \A i \in 1..Len(list) :
           list[i].id = req[r].sessionId =>
             \A t \in WrittenAt(r) : list[i].updated_at >= t

(***************************************************************************)
(* Session creation through POST /api/sessions                             *)
(***************************************************************************)

\* an empty store and one session-management request more than elsewhere,
\* so that two creations can fall into one tick of the clock
InitCreate ==
  /\ sessions = <<>>
  /\ conversations = <<>>
  /\ lastID = 0
  /\ now = 0
  /\ pendingTouch = [sid \in SessionIds |-> 0]
  /\ req = [r \in Requests |-> IdleRequest]
  /\ unsent = {}
  /\ opsLeft = MaxSessionOps + 1
  /\ env = [GEMINI_API_KEY |-> SomeKey]
  /\ client = NewClient
  /\ res = NoReply

\* req.body.title of the creation requests: one of three titles, or none
PostTitles == Titles \cup {<<"S">>, <<"U">>, <<Absent>>}

\* the session-management endpoints and the clock
NextCreate ==
  \/ Tick
  \/ \E title \in PostTitles : PostSession(title)
  \/ \E sid \in SessionIds, title \in Titles : PatchSession(sid, title)
  \/ \E sid \in SessionIds : DeleteSessionOk(sid)
  \/ \E sid \in SessionIds : DeleteSessionFails(sid)

SpecCreate == InitCreate /\ [][NextCreate]_vars

\* C33: every POST /api/sessions that is answered 200 has created a row that
\* was not there before, and the id and title of its answer are those of the
\* stored row, two creations within one tick of the clock included
C33_CreatesFreshRow ==
  [][\A title \in PostTitles :
       (PostSession(title) /\ res'.status = 200) =>
         /\ res'.body.id \notin DOMAIN sessions
         /\ res'.body.id \in DOMAIN sessions'
         /\ sessions'[res'.body.id].title = res'.body.title]_vars

(***************************************************************************)
(* The loaded history and the request's own user turn                      *)
(***************************************************************************)

\* C34: while chat requests are handled one at a time, the history a request
\* has loaded ends with the user turn that request has just saved, and the
\* prompt of each of its provider calls holds the new message twice: in the
\* last history line, as 'User: message', and in the line after it, as
\* 'User (mood): message'
C34_OwnTurnLast ==
  \A r \in Serial :
    /\ (req[r].pc \in {"generate", "saveAssistant"}
          /\ Len(req[r].written) >= 1) =>
         /\ Len(req[r].history) >= 1
         /\ req[r].history[Len(req[r].history)].id = req[r].written[1]
    /\ req[r].prompt # <<>> =>
         LET p == req[r].prompt
         IN  /\ p[Len(p) - 2] = <<"User: ">> \o req[r].trimmed
             /\ p[Len(p) - 1] =
                  <<"User (", req[r].mood, "): ">> \o req[r].trimmed

(***************************************************************************)
(* Mood and mode of the two turns of a request                             *)
(***************************************************************************)

\* the stored turn with the id
TurnWithId(id) ==
  conversations[CHOOSE i \in 1..Len(conversations) : conversations[i].id = id]

\* C35: the assistant turn of a chat request is stored with the mood and the
\* mode of the request's user turn, and a 200 response carries exactly that
\* mood and mode, whether the provider answered or the reply is an apology
C35_SameMoodAndMode ==
  \A r \in Requests :
    Len(req[r].written) = 2 =>
      LET user == TurnWithId(req[r].written[1])
          assistant == TurnWithId(req[r].written[2])
      IN  /\ user.role = "user" /\ assistant.role = "assistant"
          /\ assistant.mood = user.mood
          /\ assistant.mode = user.mode
          /\ req[r].status = 200 =>
               /\ req[r].replyMood = user.mood
               /\ req[r].replyMode = user.mode

\* a request was answered 200 with an apology after the provider had failed,
\* with a mood and a mode other than the defaults
C35_Witness ==
  \E r \in Requests :
    /\ req[r].status = 200
    /\ req[r].genFailed
    /\ Len(req[r].written) = 2
    /\ req[r].replyMood = "happy"
    /\ req[r].replyMode = "code"
    /\ TurnWithId(req[r].written[2]).content \in Apologies

(***************************************************************************)
(* The browser client: session list and open session                       *)
(***************************************************************************)

\* the sessions the store holds when the client starts, none refreshed later
\* than another
InitClient ==
  /\ \E S \in SUBSET SessionIds :
       sessions = [sid \in S |->
         [title |-> NewChatTitle, created_at |-> 0 - 1, updated_at |-> 0 - 1]]
  /\ conversations = <<>>
  /\ lastID = 0
  /\ now = 0
  /\ pendingTouch = [sid \in SessionIds |-> 0]
  /\ req = [r \in Requests |-> IdleRequest]
  /\ unsent = {}
  /\ opsLeft = MaxSessionOps + 1
  /\ env = [GEMINI_API_KEY |-> SomeKey]
  /\ res = NoReply
  /\ client = NewClient

\* the ids of a listing, in its order
ListIds(list) == [i \in 1..Len(list) |-> list[i].id]

\* prev.filter(s => s.id !== sessionId)
Filter(list, sid) == SelectSeq(list, LAMBDA id : id # sid)

\* loadSessions: GET /api/sessions and setSessions(response.data); a failed
\* request is logged and changes nothing
ClientLoadSessions ==
  /\ \E list \in getAllSessions :
       client' = [client EXCEPT !.sessions = ListIds(list)]
  /\ client' # client
  /\ UNCHANGED <<store, now, env, res, req, unsent, opsLeft>>

\* a click on a session of the list: loadHistory(session.id), whose request
\* succeeds; GET /api/history answers any id
ClientSelectSession(sid) ==
  /\ \E i \in 1..Len(client.sessions) : client.sessions[i] = sid
  /\ client.currentSessionId # sid
  /\ client' = [client EXCEPT !.currentSessionId = sid, !.switched = "none"]
  /\ UNCHANGED <<store, now, env, res, req, unsent, opsLeft>>

\* setSessions(prev => [newSession, ...prev]); setCurrentSessionId(id);
\* loadHistory(id)
Created(c, id) ==
  [c EXCEPT !.sessions = <<id>> \o @, !.currentSessionId = id]

\* createNewSession: POST /api/sessions {title: 'New Chat'} and, when it
\* succeeds, the new session heads the list and becomes the open session
ClientCreateNewSession ==
  /\ opsLeft > 0
  /\ opsLeft' = opsLeft - 1
  /\ \/ /\ sessions' = createSession(sessions, GeneratedSession(now),
                                     NewChatTitle, now)
        /\ res' = Reply(200, [id |-> GeneratedSession(now),
                              title |-> NewChatTitle])
        /\ client' = [Created(client, GeneratedSession(now))
                        EXCEPT !.switched = "none"]
     \/ /\ res' = Reply(500, [id |-> <<>>, title |-> <<>>])
        /\ UNCHANGED <<sessions, client>>
  /\ UNCHANGED <<conversations, lastID, pendingTouch, now, env, req, unsent>>

\* deleteSession of the client: DELETE /api/sessions/:id; when it succeeds
\* the id leaves the list, and if it was the open session the client turns
\* to sessions[1] of the list as it was before, or creates a session when
\* there is no such element (index 1 of the array is element 2 here)
ClientDeleteSession(sid) ==
  /\ \E i \in 1..Len(client.sessions) : client.sessions[i] = sid
  /\ client.pending = NoPending
  /\ opsLeft > 0
  /\ opsLeft' = opsLeft - 1
  /\ \/ /\ sessions' = deleteSession(sessions, sid)
        /\ conversations' = CascadeDelete(conversations, sid)
        /\ res' = Reply(200, SuccessBody)
        /\ client' =
             [client EXCEPT
                !.sessions = Filter(@, sid),
                !.switched = "none",
                !.pending =
                  IF client.currentSessionId # sid THEN NoPending
                  ELSE IF Len(client.sessions) >= 2
                    THEN [kind |-> "loadHistory", id |-> client.sessions[2]]
                    ELSE [kind |-> "createNewSession", id |-> NoSessionId]]
     \/ /\ res' = Reply(500, [error |-> <<"Failed to delete session">>])
        /\ UNCHANGED <<sessions, conversations, client>>
  /\ UNCHANGED <<lastID, pendingTouch, now, env, req, unsent>>

\* the request that deleteSession started without awaiting it settles:
\* loadHistory(otherSession.id) sets the open session when it succeeds, and
\* createNewSession() opens a new session when it succeeds
ClientFollowUp ==
  /\ client.pending # NoPending
  /\ \/ /\ client.pending.kind = "loadHistory"
        /\ client' = [client EXCEPT !.currentSessionId = client.pending.id,
                                    !.pending = NoPending,
                                    !.switched = "done"]
        /\ UNCHANGED <<sessions, res>>
     \/ /\ client.pending.kind = "createNewSession"
        /\ sessions' = createSession(sessions, GeneratedSession(now),
                                     NewChatTitle, now)
        /\ res' = Reply(200, [id |-> GeneratedSession(now),
                              title |-> NewChatTitle])
        /\ client' = [Created(client, GeneratedSession(now))
                        EXCEPT !.pending = NoPending, !.switched = "done"]
     \/ /\ client' = [client EXCEPT !.pending = NoPending,
                                    !.switched = "failed"]
        /\ UNCHANGED <<sessions, res>>
  /\ UNCHANGED <<conversations, lastID, pendingTouch, now, env, req, unsent,
                 opsLeft>>

NextClient ==
  \/ Tick
  \/ ClientLoadSessions
  \/ \E sid \in SessionIds : ClientSelectSession(sid)
  \/ ClientCreateNewSession
  \/ \E sid \in SessionIds : ClientDeleteSession(sid)
  \/ ClientFollowUp

SpecClient == InitClient /\ [][NextClient]_vars

\* C36: once the client has deleted its open session and the request it
\* then sent has succeeded, the open session is one that exists: a session
\* that remained, or a newly created one, never the deleted one
C36_OpenSessionExists ==
  client.switched = "done" => client.currentSessionId \in DOMAIN sessions

====
